---- MODULE Spec2Model ----
(***************************************************************************)
(* Model of paulstuart/dbobj: the dbgen code generator (src/dbgen/main.go) *)
(* and the DBU runtime (the last package of src/unnamed/part_003,          *)
(* lines 995-1339).                                                        *)
(*                                                                         *)
(* Go strings are modelled as sequences of tokens: a column, field, table  *)
(* or type name is one token, the separator "," is a token of its own, and *)
(* the empty string is <<>>.  strings.Join and strings.Split are computed  *)
(* over these sequences as the Go library computes them.                   *)
(***************************************************************************)
EXTENDS Integers, Sequences, FiniteSets, TLC

VARIABLES
    pkg,        \* Generator.pkg.files: per file, the declarations ast.Inspect visits
    names,      \* main: names := strings.Split(*typeNames, ",")
    call,       \* main: index of the next g.generate(typeName) call
    TypeName,   \* File.TypeName, per file
    values,     \* File.values, per file
    buf,        \* Generator.buf: the blocks printed so far
    emitted,    \* per generate call made: the number of blocks it appended
    stmt,       \* the statement the runtime last handed to DBU.Exec
    pc,         \* per caller of a shared DBU: where it stands in its operation
    op,         \* per caller: the DBU operation it is running
    obj,        \* per caller: its object, whether its type has a key and the key
    mu,         \* DBU.mu: the caller holding the lock, or NoCaller
    inflight,   \* the callers with a statement executing on DBU.db
    failed,     \* per caller: its operation's query or exec returned an error
    ret,        \* per caller: what its last operation returned
    rowsLeft,   \* per caller: rows InsertMany has still to execute
    db,         \* DBU.db: the open handle, or nil once Close has cleared it
    panic,      \* the caller whose nil dereference ended the process, or NoCaller
    recv,       \* the object o of a generated type: the value of each of its fields
    res,        \* the last call on o: its operation, arguments and what it returned
    table,      \* the committed rows of the object's table, by rowid
    tx,         \* the open transaction of InsertMany: its rows not yet committed
    run,        \* one run of main: its arguments, the errors it meets, its exit, its output
    cursor      \* one call of Query: the result rows, and how far the loop over them is

genVars == <<pkg, names, call, TypeName, values, buf, emitted, stmt>>
dbuVars == <<pc, op, obj, mu, inflight, failed, ret, rowsLeft, db, panic>>
storeVars == <<recv, res, table, tx>>
mainVars == <<run>>
queryVars == <<cursor>>
vars == <<genVars, dbuVars, storeVars, mainVars, queryVars>>

----------------------------------------------------------------------------
(* Bounds of the model *)

MaxFields == 2      \* fields of the struct drawn from the full tag domain
MaxDecls == 2       \* declarations per package
MaxFiles == 2       \* files per package
MaxNames == 2       \* names in the -type flag
NumCallers == 2     \* concurrent callers of one DBU
MaxRows == 2        \* rows of one InsertMany batch
MaxID == 2          \* largest last-insert id the database reports

----------------------------------------------------------------------------
(* Go strings *)

Comma == ","
Empty == <<>>
Str(t) == <<t>>

Range(s) == {s[i] : i \in DOMAIN s}

RECURSIVE Join(_, _)
\* strings.Join(a, sep)
Join(a, sep) ==
    IF Len(a) = 0 THEN Empty
    ELSE IF Len(a) = 1 THEN a[1]
    ELSE a[1] \o sep \o Join(Tail(a), sep)

RECURSIVE SplitFrom(_, _, _)
SplitFrom(s, i, cur) ==
    IF i > Len(s) THEN <<cur>>
    ELSE IF s[i] = Comma THEN <<cur>> \o SplitFrom(s, i + 1, Empty)
    ELSE SplitFrom(s, i + 1, Append(cur, s[i]))

\* strings.Split(s, ","): n separators give n+1 pieces; "" gives one empty piece
Split(s) == SplitFrom(s, 1, Empty)

\* the element list of a Go composite literal []T{...} whose body is the text s
GoList(s) == IF s = Empty THEN <<>> ELSE Split(s)

\* Go map lookup: the zero value for a missing key
MapGet(m, k) == IF k \in DOMAIN m THEN m[k] ELSE Empty

\* strconv.ParseBool
ParseBool(s) ==
    IF s \in {Str("1"), Str("t"), Str("T"), Str("TRUE"), Str("true"), Str("True")}
        THEN [val |-> TRUE, err |-> FALSE]
    ELSE IF s \in {Str("0"), Str("f"), Str("F"), Str("FALSE"), Str("false"), Str("False")}
        THEN [val |-> FALSE, err |-> FALSE]
    ELSE [val |-> FALSE, err |-> TRUE]

----------------------------------------------------------------------------
(* sqlTags: the tags of a struct's fields, folded into one SQLInfo *)

Nil == [nil |-> TRUE]

NewSQLInfo ==
    [Name |-> Empty, Table |-> Empty, KeyName |-> Empty, KeyField |-> Empty,
     UserField |-> Empty, TimeField |-> Empty, Order |-> <<>>,
     Fields |-> <<>>, NoUpdate |-> {}, good |-> FALSE]

\* sqlTagsSQL with the first table tag kept instead of the last
sqlTagsSQLFirstTable(info, f) ==
    IF Len(f.sql) > 0 THEN
        LET i1 == IF Len(f.table) > 0 /\ Len(info.Table) = 0
                    THEN [info EXCEPT !.Table = f.table] ELSE info
            i2 == IF Len(f.key) > 0
                    THEN [i1 EXCEPT !.KeyName = f.name, !.KeyField = f.sql]
                    ELSE [i1 EXCEPT !.Fields = (f.name :> f.sql) @@ i1.Fields,
                                    !.Order = Append(i1.Order, f.name)]
        IN [i2 EXCEPT !.good = TRUE]
    ELSE info

\* the body of `if sql := tag.Get("sql"); len(sql) > 0 { ... }`
sqlTagsSQL(info, f) ==
    IF Len(f.sql) > 0 THEN
        LET i1 == IF Len(f.table) > 0 THEN [info EXCEPT !.Table = f.table] ELSE info
            i2 == IF Len(f.key) > 0
                    THEN [i1 EXCEPT !.KeyName = f.name, !.KeyField = f.sql]
                    ELSE [i1 EXCEPT !.Fields = (f.name :> f.sql) @@ i1.Fields,
                                    !.Order = Append(i1.Order, f.name)]
        IN [i2 EXCEPT !.good = TRUE]
    ELSE info

\* sqlTagsAudit with every audit value other than "time" taken as "user"
sqlTagsAuditAnyValue(info, f) ==
    IF Len(f.audit) > 0 THEN
        IF f.audit = Str("time") THEN [info EXCEPT !.TimeField = f.name]
        ELSE [info EXCEPT !.UserField = f.name]
    ELSE info

\* the body of `if audit := tag.Get("audit"); len(audit) > 0 { ... }`
sqlTagsAudit(info, f) ==
    IF Len(f.audit) > 0 THEN
        IF f.audit = Str("user") THEN [info EXCEPT !.UserField = f.name]
        ELSE IF f.audit = Str("time") THEN [info EXCEPT !.TimeField = f.name]
        ELSE info
    ELSE info

\* the body of `if update := tag.Get("update"); len(update) > 0 { ... }`
sqlTagsUpdate(info, f) ==
    IF Len(f.update) > 0 THEN
        LET r == ParseBool(f.update)
        IN IF ~r.err /\ r.val = FALSE
            THEN [info EXCEPT !.NoUpdate = info.NoUpdate \cup {f.name}]
            ELSE info
    ELSE info

\* one iteration of `for _, field := range fields.List`; a field without a tag
\* literal (field.Tag = nil) is a field all of whose tag values are empty
sqlTagsField(info, f) ==
    sqlTagsUpdate(sqlTagsAudit(sqlTagsSQL(info, f), f), f)

RECURSIVE sqlTagsLoop(_, _)
sqlTagsLoop(info, fields) ==
    IF fields = <<>> THEN info
    ELSE sqlTagsLoop(sqlTagsField(info, Head(fields)), Tail(fields))

\* sqlTags returning its descriptor whenever any tag was recorded in it
sqlTagsAnyTag(typeName, fields) ==
    LET info == sqlTagsLoop(NewSQLInfo, fields)
    IN IF info # NewSQLInfo THEN info ELSE Nil

\* `if good { return &info }; return nil`
sqlTags(typeName, fields) ==
    LET info == sqlTagsLoop(NewSQLInfo, fields)
    IN IF info.good THEN info ELSE Nil

----------------------------------------------------------------------------
(* buildWrappers: the method texts printed for one SQLInfo *)

Quote == "#"        \* the double-quote character of the generated source

\* s.Order without the empty names: `if len(k) > 0`
orderKept(s) == SelectSeq(s.Order, LAMBDA k : Len(k) > 0)

\* sql: the key column when there is one, then the column of every ordered field
sqlColumns(s) ==
    (IF Len(s.KeyField) > 0 THEN <<s.KeyField>> ELSE <<>>)
        \o [i \in DOMAIN orderKept(s) |-> MapGet(s.Fields, orderKept(s)[i])]

\* ptrList with the key's address appended after the ordered fields
ptrListKeyLast(s) ==
    [i \in DOMAIN orderKept(s) |-> Str("&o.") \o orderKept(s)[i]]
        \o (IF Len(s.KeyName) > 0 THEN <<Str("&o.") \o s.KeyName>> ELSE <<>>)

\* ptr: "&o."+KeyName when there is one, then "&o."+k for every ordered field
ptrList(s) ==
    (IF Len(s.KeyName) > 0 THEN <<Str("&o.") \o s.KeyName>> ELSE <<>>)
        \o [i \in DOMAIN orderKept(s) |-> Str("&o.") \o orderKept(s)[i]]

\* elem as it stands at the InsertValues Printf: "o."+k for every ordered field
elemList(s) == [i \in DOMAIN orderKept(s) |-> Str("o.") \o orderKept(s)[i]]

\* elemWithKey with the fields of s.NoUpdate left out of the update values
elemWithKeySkipNoUpdate(s) ==
    LET kept == SelectSeq(orderKept(s), LAMBDA k : k \notin s.NoUpdate)
        elem == [i \in DOMAIN kept |-> Str("o.") \o kept[i]]
    IN IF Len(s.KeyName) > 0 THEN Append(elem, Str("o.") \o s.KeyName) ELSE elem

\* elemWithKey with the key put before the ordered fields
elemKeyFirst(s) ==
    IF Len(s.KeyName) > 0 THEN <<Str("o.") \o s.KeyName>> \o elemList(s)
    ELSE elemList(s)

\* elem as it stands at the UpdateValues Printf: the key appended when there is one
elemWithKey(s) ==
    IF Len(s.KeyName) > 0 THEN Append(elemList(s), Str("o.") \o s.KeyName)
    ELSE elemList(s)

\* names: the quoted name of every ordered field
namesList(s) == [i \in DOMAIN orderKept(s) |-> Str(Quote) \o orderKept(s)[i] \o Str(Quote)]

\* the argument of the stringInsertFields Printf
insertFieldsArg(s) == Join(sqlColumns(s), Str(Comma))

\* auditString: the assignments of the ModifiedBy body
auditString(name, u, t) ==
    (IF Len(u) > 0 THEN <<[lhs |-> u, rhs |-> "&user"]>> ELSE <<>>)
        \o (IF Len(t) > 0 THEN <<[lhs |-> t, rhs |-> "t"]>> ELSE <<>>)

\* The block of one type: each generated method with the text substituted into it.
\* The locals set and insert_fields of buildWrappers are built and never printed;
\* SQLGet repeats TableName and SelectFields.
\* Key is the field `return o.%s` names, or <<"0">> for stringNoKey; SetID is the
\* field `o.%s = id` assigns, or Empty for the empty body of stringNoSetID.
buildWrappers(s) ==
    [Name |-> s.Name,
     InsertValues |-> Join(elemList(s), Str(Comma)),
     UpdateValues |-> Join(elemWithKey(s), Str(Comma)),
     MemberPointers |-> Join(ptrList(s), Str(Comma)),
     Key |-> IF Len(s.KeyField) > 0 THEN s.KeyName ELSE Str("0"),
     SetID |-> IF Len(s.KeyField) > 0 THEN s.KeyName ELSE Empty,
     TableName |-> s.Table,
     SelectFields |-> Join(sqlColumns(s), Str(Comma)),
     InsertFields |-> insertFieldsArg(s),
     KeyField |-> s.KeyField,
     KeyName |-> s.KeyName,
     Names |-> Join(namesList(s), Str(Comma)),
     ModifiedBy |-> auditString(s.Name, s.UserField, s.TimeField)]

----------------------------------------------------------------------------
(* The generated methods, as the compiled block evaluates them on an object o *)

InsertValues(o) == GoList(o.InsertValues)
UpdateValues(o) == GoList(o.UpdateValues)
MemberPointers(o) == GoList(o.MemberPointers)
Names(o) == GoList(o.Names)
SelectFields(o) == o.SelectFields
InsertFields(o) == o.InsertFields
KeyField(o) == o.KeyField
KeyName(o) == o.KeyName

\* SetID assigning id to every field of the object
stringSetIDEveryField(b, r, id) == [f \in DOMAIN r |-> id]

\* Key() and SetID(id) of the block b on an object whose fields hold r:
\* stringKey `return o.%[2]s` or stringNoKey `return 0`, and
\* stringSetID `o.%[2]s = id` or the empty body of stringNoSetID
stringKey(b, r) == IF b.Key = Str("0") THEN 0 ELSE r[b.Key]
stringSetID(b, r, id) == IF b.SetID = Empty THEN r ELSE [r EXCEPT ![b.SetID] = id]
TableName(o) == o.TableName

----------------------------------------------------------------------------
(* The runtime's statement builders *)

\* Placeholders(n)
Placeholders(n) == Join([i \in 1..n |-> Str("?")], Str(Comma))

\* insertFields without its filter: InsertFields() as it is
insertFieldsKeepKey(o) == Join(Split(InsertFields(o)), Str(Comma))

\* insertFields(o): InsertFields() without the pieces equal to KeyField()
insertFields(o) ==
    Join(SelectSeq(Split(InsertFields(o)), LAMBDA p : p # KeyField(o)), Str(Comma))

\* setParams(params)
setParams(params) ==
    Join([i \in DOMAIN Split(params) |-> Split(params)[i] \o Str("=?")], Str(Comma))

\* insertQuery(o): the three %s of "insert into %s (%s) values(%s)"
insertQuery(o) ==
    [verb |-> "insert", table |-> TableName(o), fields |-> insertFields(o),
     params |-> Placeholders(Len(InsertValues(o)))]

\* replaceQuery(o): the three %s of "replace into %s (%s) values(%s)"
replaceQuery(o) ==
    [verb |-> "replace", table |-> TableName(o), fields |-> insertFields(o),
     params |-> Placeholders(Len(InsertValues(o)))]

\* deleteQuery(o): the two %s of "delete from %s where %s=?"
deleteQuery(o) ==
    [verb |-> "delete", table |-> TableName(o), where |-> KeyField(o)]

\* updateQuery(o): the three %s of "update %s set %s where %s=?"
updateQuery(o) ==
    [verb |-> "update", table |-> TableName(o), set |-> setParams(insertFields(o)),
     where |-> KeyField(o)]

----------------------------------------------------------------------------
(* genDecl and generate *)

\* genDecl on the nodes of one declaration.  A declaration is
\*   "struct": type N struct{...}   (a TypeSpec, then its StructType)
\*   "other":  type N T, T no struct (a TypeSpec alone)
\*   "anon":   a struct type that is not the type of a TypeSpec (a StructType alone)
\* st is [TypeName, values], the two File fields genDecl writes.
genDecl(st, findName, d) ==
    LET tn == IF d.kind \in {"struct", "other"} THEN d.name ELSE st.TypeName
        tags == sqlTags(tn, d.fields)
    IN IF d.kind \in {"struct", "anon"}
            /\ (Len(findName) = 0 \/ findName = tn)
            /\ tags # Nil
        THEN [TypeName |-> tn,
              values |-> Append(st.values, [tags EXCEPT !.Name = tn])]
        ELSE [TypeName |-> tn, values |-> st.values]

RECURSIVE Inspect(_, _, _)
\* ast.Inspect(file.file, file.genDecl)
Inspect(st, findName, decls) ==
    IF decls = <<>> THEN st
    ELSE Inspect(genDecl(st, findName, Head(decls)), findName, Tail(decls))

\* the File fields after generate(typeName) has inspected file i
inspected(i, typeName) ==
    Inspect([TypeName |-> TypeName[i], values |-> values[i]], typeName, pkg[i])

RECURSIVE printed(_, _)
\* what generate(typeName) prints: for each file from i on, a block per element
\* of file.values as it stands after the file was inspected
printed(i, typeName) ==
    IF i > Len(pkg) THEN <<>>
    ELSE LET vs == inspected(i, typeName).values
         IN [j \in DOMAIN vs |-> buildWrappers(vs[j])] \o printed(i + 1, typeName)

----------------------------------------------------------------------------
(* The inputs: struct declarations and the -type flag *)

FieldNames == <<"F1", "F2", "F3", "F4">>
Columns == <<"c1", "c2", "c3", "c4">>
Tables == <<"t1", "t2", "t3", "t4">>

\* the audit and update values a field may carry together
AuditUpdate ==
    {<<Empty, Empty>>, <<Str("user"), Empty>>, <<Str("time"), Empty>>,
     <<Str("name"), Empty>>, <<Empty, Str("false")>>, <<Empty, Str("true")>>,
     <<Empty, Str("no")>>}

\* what a field's tag holds: which of sql, key and table it carries, and its audit
\* and update values
TagChoices == [sql : BOOLEAN, key : BOOLEAN, table : BOOLEAN, au : AuditUpdate]

\* the i-th field of a struct: its name, and what tag.Get returns for each key.
\* Each field has a column and a table value of its own: no two fields of a
\* struct name the same column.
FieldAt(i, c) ==
    [name |-> Str(FieldNames[i]),
     sql |-> IF c.sql THEN Str(Columns[i]) ELSE Empty,
     key |-> IF c.key THEN Str("true") ELSE Empty,
     table |-> IF c.table THEN Str(Tables[i]) ELSE Empty,
     audit |-> c.au[1], update |-> c.au[2]]

Field(n, sq, k, tb, au, up) ==
    [name |-> Str(n), sql |-> sq, key |-> k, table |-> tb, audit |-> au, update |-> up]

\* the declarations the files of a package are drawn from
DeclA ==
    [kind |-> "struct", name |-> Str("A"),
     fields |-> <<Field("ID", Str("id"), Str("true"), Str("a"), Empty, Empty),
                  Field("Name", Str("name"), Empty, Empty, Empty, Empty)>>]
DeclB ==
    [kind |-> "struct", name |-> Str("B"),
     fields |-> <<Field("Val", Str("val"), Empty, Str("b"), Empty, Str("false"))>>]
DeclN ==
    [kind |-> "struct", name |-> Str("N"),
     fields |-> <<Field("X", Empty, Empty, Empty, Empty, Empty)>>]
DeclO == [kind |-> "other", name |-> Str("O"), fields |-> <<>>]
DeclV ==
    [kind |-> "anon", name |-> Empty,
     fields |-> <<Field("Y", Str("y"), Empty, Empty, Empty, Empty)>>]

DeclPool == {DeclA, DeclB, DeclN, DeclO, DeclV}

Distinct(s) == \A i, j \in DOMAIN s : i # j => s[i] # s[j]

SeqsUpTo(S, n) == UNION {[1..k -> S] : k \in 1..n}

RECURSIVE Files(_, _, _, _)
\* the files s is cut into: a file ends after each position of cuts
Files(s, cuts, i, cur) ==
    IF i > Len(s) THEN <<cur>>
    ELSE IF i \in cuts /\ i < Len(s)
        THEN <<Append(cur, s[i])>> \o Files(s, cuts, i + 1, <<>>)
    ELSE Files(s, cuts, i + 1, Append(cur, s[i]))

\* a package: up to MaxDecls different declarations in up to MaxFiles files
Packages ==
    {Files(s, cuts, 1, <<>>) :
        s \in {d \in SeqsUpTo(DeclPool, MaxDecls) : Distinct(d)},
        cuts \in {c \in SUBSET (1..(MaxDecls - 1)) : Cardinality(c) < MaxFiles}}

\* the values of the -type flag: up to MaxNames names joined by commas
NamePool == {Empty, Str("A"), Str("B"), Str("Z")}
TypeFlags == {Join(l, Str(Comma)) : l \in SeqsUpTo(NamePool, MaxNames)}

Callers == 1..NumCallers
NoCaller == 0

\* a DBU nobody has called yet
DBUIdle ==
    /\ pc = [c \in Callers |-> "idle"]
    /\ op = [c \in Callers |-> "none"]
    /\ obj = [c \in Callers |-> [keyed |-> FALSE, key |-> 0]]
    /\ mu = NoCaller
    /\ inflight = {}
    /\ failed = [c \in Callers |-> FALSE]
    /\ ret = [c \in Callers |-> "none"]
    /\ rowsLeft = [c \in Callers |-> 0]
    /\ db = "open"
    /\ panic = NoCaller

\* no object made yet, no table opened
StoreIdle == recv = Nil /\ res = Nil /\ table = {} /\ tx = Nil /\ cursor = Nil

\* main is not followed outside its generate calls
MainIdle == run = Nil

\* the generator over the files p with the -type flag, nothing generated yet
Parsed(p, flag) ==
    /\ pkg = p
    /\ names = Split(flag)
    /\ call = 1
    /\ TypeName = [i \in DOMAIN p |-> Empty]
    /\ values = [i \in DOMAIN p |-> <<>>]
    /\ buf = <<>>
    /\ emitted = <<>>
    /\ stmt = Nil
    /\ DBUIdle
    /\ StoreIdle

\* the state main is in before its first generate call
Start(p, flag) == Parsed(p, flag) /\ MainIdle

\* one struct type T with fields from the whole tag domain, no -type flag
InitStruct ==
    \E n \in 1..MaxFields : \E c \in [1..n -> TagChoices] :
        Start(<< <<[kind |-> "struct", name |-> Str("T"),
                    fields |-> [i \in 1..n |-> FieldAt(i, c[i])]]>> >>, Empty)

\* a package of several files and declarations, several names in -type
InitPackage == \E p \in Packages, flag \in TypeFlags : Start(p, flag)

Init == InitStruct

----------------------------------------------------------------------------
(* main's generate calls *)

\* `if len(names) == 0 { g.generate("") } else { for _, typeName := range names ...`
callsToMake == IF Len(names) = 0 THEN 1 ELSE Len(names)
callName(c) == IF Len(names) = 0 THEN Empty ELSE names[c]

\* g.generate(typeName): every file is inspected and every element of its
\* values is printed
Generate ==
    /\ call <= callsToMake
    /\ LET typeName == callName(call)
       IN /\ TypeName' = [i \in DOMAIN pkg |-> inspected(i, typeName).TypeName]
          /\ values' = [i \in DOMAIN pkg |-> inspected(i, typeName).values]
          /\ buf' = buf \o printed(1, typeName)
          /\ emitted' = Append(emitted, [name |-> typeName,
                                         blocks |-> Len(printed(1, typeName))])
    /\ call' = call + 1
    /\ UNCHANGED <<pkg, names, stmt, dbuVars, storeVars, queryVars, mainVars>>

----------------------------------------------------------------------------
(* The runtime on an object of a generated type, one caller *)

Generated == call > callsToMake

\* DBU.Add(o): args := o.InsertValues(), query := insertQuery(o), the statement
\* it hands to du.Exec (Exec itself is followed in SpecDBU)
AddStatement(i) ==
    /\ Generated
    /\ stmt' = [op |-> "Add", obj |-> i, query |-> insertQuery(buf[i]),
                args |-> InsertValues(buf[i])]
    /\ UNCHANGED <<pkg, names, call, TypeName, values, buf, emitted, dbuVars, storeVars, queryVars, mainVars>>

\* DBU.Save(o): the statement updateQuery(o), o.UpdateValues() it hands to du.Exec
SaveStatement(i) ==
    /\ Generated
    /\ stmt' = [op |-> "Save", obj |-> i, query |-> updateQuery(buf[i]),
                args |-> UpdateValues(buf[i])]
    /\ UNCHANGED <<pkg, names, call, TypeName, values, buf, emitted, dbuVars, storeVars, queryVars, mainVars>>

Next ==
    \/ Generate
    \/ \E i \in DOMAIN buf : AddStatement(i)
    \/ \E i \in DOMAIN buf : SaveStatement(i)

Spec == Init /\ [][Next]_vars

\* main over a package of several files, up to the end of its generate calls
SpecPackage == InitPackage /\ [][Generate]_vars

----------------------------------------------------------------------------
(* Key() and SetID(id) on an object of the generated type *)

\* o := &T{...}: an object of the struct, its i-th field holding i
NewObject(fs) == [n \in {fs[i].name : i \in DOMAIN fs} |->
                    CHOOSE i \in DOMAIN fs : fs[i].name = n]

\* o.SetID(id) on the object of the block printed for the struct
CallSetID(id) ==
    /\ Generated /\ buf # <<>>
    /\ LET o == IF recv = Nil THEN NewObject(pkg[1][1].fields) ELSE recv
       IN recv' = stringSetID(buf[1], o, id)
    /\ res' = [op |-> "SetID", id |-> id]
    /\ UNCHANGED <<genVars, mainVars, dbuVars, queryVars, table, tx>>

NextObject ==
    \/ Generate
    \/ \E id \in 0..MaxID : CallSetID(id)

SpecObject == InitStruct /\ [][NextObject]_vars

----------------------------------------------------------------------------
(* What the claims speak of *)

\* the fields of the one struct of a Spec run, and the block generated for it
StructFields == pkg[1][1].fields
Block == buf[1]

\* the fields with a sql value, those of them without a key tag, those with one
Persisted(fs) == SelectSeq(fs, LAMBDA f : f.sql # Empty)
NonKey(fs) == SelectSeq(fs, LAMBDA f : f.sql # Empty /\ f.key = Empty)
KeyTagged(fs) == SelectSeq(fs, LAMBDA f : f.sql # Empty /\ f.key # Empty)
HasKey(fs) == KeyTagged(fs) # <<>>
TheKey(fs) == KeyTagged(fs)[Len(KeyTagged(fs))]

\* the key when there is one, then the other persisted fields as declared
KeyFirst(fs) == (IF HasKey(fs) THEN <<TheKey(fs)>> ELSE <<>>) \o NonKey(fs)

ColumnsOf(fs) == [i \in DOMAIN fs |-> fs[i].sql]
ValuesOf(fs) == [i \in DOMAIN fs |-> Str("o.") \o fs[i].name]
AddressesOf(fs) == [i \in DOMAIN fs |-> Str("&o.") \o fs[i].name]

\* the columns a comma separated column list names
ColumnList(text) == IF text = Empty THEN <<>> ELSE Split(text)

\* the columns assigned by a SET list "c=?,d=?"
SetColumns(text) == {<<p[1]>> : p \in {q \in Range(ColumnList(text)) : Len(q) > 0}}

NoUpdateTagged(f) == ~ParseBool(f.update).err /\ ~ParseBool(f.update).val

----------------------------------------------------------------------------
(* C1 - C5, C8: the generated accessors of one struct *)

\* C1: for a type with a key field, InsertFields() lists every persisted
\* non-key column in declaration order and never contains the key column.
C1_InsertFieldsOmitKey ==
    (buf # <<>> /\ HasKey(StructFields)) =>
        /\ InsertFields(Block) = Join(ColumnsOf(NonKey(StructFields)), Str(Comma))
        /\ TheKey(StructFields).sql \notin Range(ColumnList(InsertFields(Block)))

C5_NoUpdateColumnNotSet ==
    \A i \in DOMAIN StructFields :
        (buf # <<>> /\ StructFields[i].sql # Empty /\ NoUpdateTagged(StructFields[i])) =>
            /\ StructFields[i].sql \in Range(ColumnList(SelectFields(Block)))
            /\ (stmt # Nil /\ stmt.op = "Save") =>
                    StructFields[i].sql \notin SetColumns(stmt.query.set)

\* the fields that carry a table tag, and those of them that have a sql value
TableTagged(fs) == SelectSeq(fs, LAMBDA f : f.table # Empty)
TableTaggedSQL(fs) == SelectSeq(fs, LAMBDA f : f.table # Empty /\ f.sql # Empty)

\* C8 as claimed: when two fields carry a table tag, TableName() is the table of
\* the later declared one.
C8_LastTableTagWins ==
    (buf # <<>> /\ Len(TableTagged(StructFields)) >= 2) =>
        TableName(Block) = TableTagged(StructFields)[Len(TableTagged(StructFields))].table

\* C8 amended: when two fields with a sql value carry a table tag, TableName() is
\* the table of the later declared of them; a table tag on a field without a
\* sql value is not read.
C8_LastSQLTableTagWins ==
    (buf # <<>> /\ Len(TableTaggedSQL(StructFields)) >= 2) =>
        TableName(Block) =
            TableTaggedSQL(StructFields)[Len(TableTaggedSQL(StructFields))].table

\* C8 witness: a block of a struct whose first two fields both have a sql value
\* and different table values
C8_Witness ==
    /\ buf # <<>>
    /\ Len(TableTaggedSQL(StructFields)) >= 2
    /\ TableName(Block) = Str(Tables[2])

----------------------------------------------------------------------------
(* C6, C7: the generate calls of main over a package *)

\* the struct declarations of the package, and the block of one of them
Decls == UNION {Range(pkg[i]) : i \in DOMAIN pkg}
BlockOf(d) == buildWrappers([sqlTags(d.name, d.fields) EXCEPT !.Name = d.name])

\* a struct type that some requested name selects and that has a sql field
Selected(d) ==
    /\ d.kind = "struct"
    /\ sqlTags(d.name, d.fields) # Nil
    /\ \E c \in DOMAIN names : names[c] = Empty \/ names[c] = d.name

\* C6: once every requested name has been generated, each selected struct type
\* has exactly one block in the output buffer.
C6_OneBlockPerType ==
    Generated =>
        \A d \in Decls :
            Selected(d) => Cardinality({i \in DOMAIN buf : buf[i] = BlockOf(d)}) = 1

\* C7: a generate call for a name that no declared type has appends nothing to
\* the output buffer, whatever calls were made before it.
C7_UnknownNameNoOp ==
    \A c \in DOMAIN emitted :
        (emitted[c].name # Empty /\ \A d \in Decls : d.name # emitted[c].name) =>
            emitted[c].blocks = 0

\* the struct types the files declare
DeclaredStructs == {d \in UNION {Range(pkg[i]) : i \in DOMAIN pkg} : d.kind = "struct"}

\* C26: every block the generator emits is that of a declared struct type of
\* the package, under that type's name; a struct literal that is not the
\* body of a type declaration produces no block.
C26_BlocksOfDeclaredTypes ==
    \A k \in DOMAIN buf : \E d \in DeclaredStructs : buf[k] = BlockOf(d)

----------------------------------------------------------------------------
(* One DBU shared by concurrent callers *)

ExecOps == {"Add", "Replace", "Save", "Delete", "DeleteByID"}
GetOps == {"Find", "FindBy", "FindByID", "FindSelf"}
QueryOps == {"Query", "ListQuery"}

\* the object of a caller: of the generated type A, which has a key, or of B,
\* which has none
ObjectOf(c) == IF obj[c].keyed THEN BlockOf(DeclA) ELSE BlockOf(DeclB)

\* o.Key() and o.SetID(id), by stringKey/stringNoKey and stringSetID/stringNoSetID
Key(c) == IF ObjectOf(c).Key = Str("0") THEN 0 ELSE obj[c].key
SetID(c, id) == IF ObjectOf(c).SetID = Empty THEN obj[c] ELSE [obj[c] EXCEPT !.key = id]

\* each caller has an object; one with a key may have it set already
InitDBU ==
    /\ pkg = <<>> /\ names = <<>> /\ call = 1 /\ TypeName = <<>> /\ values = <<>>
    /\ buf = <<>> /\ emitted = <<>> /\ stmt = Nil
    /\ pc = [c \in Callers |-> "idle"]
    /\ op = [c \in Callers |-> "none"]
    /\ obj \in [Callers -> {[keyed |-> FALSE, key |-> 0]}
                            \cup {[keyed |-> TRUE, key |-> k] : k \in 0..MaxID}]
    /\ mu = NoCaller
    /\ inflight = {}
    /\ failed = [c \in Callers |-> FALSE]
    /\ ret = [c \in Callers |-> "none"]
    /\ rowsLeft = [c \in Callers |-> 0]
    /\ db = "open"
    /\ panic = NoCaller
    /\ StoreIdle
    /\ MainIdle

\* the process runs: a panic ends it and with it every caller
Alive == panic = NoCaller

\* a caller enters an operation
Enter(c, o, where) ==
    /\ pc[c] = "idle"
    /\ op' = [op EXCEPT ![c] = o]
    /\ pc' = [pc EXCEPT ![c] = where]
    /\ failed' = [failed EXCEPT ![c] = FALSE]
    /\ ret' = [ret EXCEPT ![c] = "none"]

\* an operation returns r to its caller
Leave(c, r) ==
    /\ pc' = [pc EXCEPT ![c] = "idle"]
    /\ op' = [op EXCEPT ![c] = "none"]
    /\ ret' = [ret EXCEPT ![c] = r]

\* Add, Replace, Save, Delete, DeleteByID: build the statement, call du.Exec
CallExec(c, o) ==
    /\ Alive
    /\ o \in ExecOps
    /\ Enter(c, o, "Exec")
    /\ UNCHANGED <<genVars, mainVars, storeVars, queryVars, db, panic, obj, mu, inflight, rowsLeft>>

\* DBU.Exec: du.mu.Lock()
ExecLock(c) ==
    /\ Alive
    /\ pc[c] = "Exec"
    /\ mu = NoCaller
    /\ mu' = c
    /\ pc' = [pc EXCEPT ![c] = "Exec_locked"]
    /\ UNCHANGED <<genVars, mainVars, storeVars, queryVars, db, panic, op, obj, inflight, failed, ret, rowsLeft>>

\* a call of a method of du.db by caller c, which goes to where.  Close writes
\* du.db under no lock, so a read of it after Close is a data race: it yields
\* nil, and the call panics and ends the process, or it yields the handle that
\* was closed, and the call fails without a statement on the database.
Deref(c, where) ==
    \/ /\ db = "open"
       /\ inflight' = inflight \cup {c}
       /\ pc' = [pc EXCEPT ![c] = where]
       /\ UNCHANGED panic
    \/ /\ db = "nil"
       /\ panic' = c
       /\ UNCHANGED <<inflight, pc>>
    \/ /\ db = "nil"
       /\ pc' = [pc EXCEPT ![c] = where]
       /\ UNCHANGED <<inflight, panic>>

\* DBU.Exec: du.db.Exec(query, args...) starts
ExecStart(c) ==
    /\ Alive
    /\ pc[c] = "Exec_locked"
    /\ Deref(c, "Exec_running")
    /\ UNCHANGED <<genVars, mainVars, storeVars, queryVars, db, op, obj, mu, failed, ret, rowsLeft>>

\* DBU.Exec with du.mu.Unlock() moved below `if err != nil { return }`
ExecReturnLockedOnError(c) ==
    /\ Alive
    /\ pc[c] = "Exec_running"
    /\ inflight' = inflight \ {c}
    /\ \E err \in BOOLEAN :
        /\ c \notin inflight => err
        /\ mu' = IF err THEN mu ELSE NoCaller
        /\ failed' = [failed EXCEPT ![c] = err]
        /\ Leave(c, IF err THEN "error" ELSE "nil")
    /\ UNCHANGED <<genVars, mainVars, storeVars, queryVars, db, panic, obj, rowsLeft>>

\* DBU.Exec: du.db.Exec returns, du.mu.Unlock(), Exec returns; then the rest of
\* the operation: Add sets the id when err == nil, Replace when err != nil (and
\* last_id is then Exec's zero result), all return err.  Replace hands its
\* slice of values over as one argument, which no statement can bind.
ExecReturn(c) ==
    /\ Alive
    /\ pc[c] = "Exec_running"
    /\ inflight' = inflight \ {c}
    /\ mu' = NoCaller
    /\ \E err \in BOOLEAN, id \in 1..MaxID :
        LET last_id == IF err THEN 0 ELSE id
        IN /\ c \notin inflight => err
           /\ op[c] = "Replace" => err
           /\ failed' = [failed EXCEPT ![c] = err]
           /\ obj' = [obj EXCEPT ![c] =
                        IF op[c] = "Add" /\ ~err THEN SetID(c, last_id)
                        ELSE IF op[c] = "Replace" /\ err THEN SetID(c, last_id)
                        ELSE obj[c]]
           /\ Leave(c, IF err THEN "error" ELSE "nil")
    /\ UNCHANGED <<genVars, mainVars, storeVars, queryVars, db, panic, rowsLeft>>

\* Find, FindBy, FindByID (through DBU.get), Query and ListQuery: call du.Query
CallQuery(c, o) ==
    /\ Alive
    /\ o \in (GetOps \cup QueryOps) \ {"FindSelf"}
    /\ Enter(c, o, "Query")
    /\ UNCHANGED <<genVars, mainVars, storeVars, queryVars, db, panic, obj, mu, inflight, rowsLeft>>

\* DBU.FindSelf: the two early returns, else FindBy
FindSelf(c) ==
    /\ Alive
    /\ pc[c] = "idle"
    /\ failed' = [failed EXCEPT ![c] = FALSE]
    /\ IF Len(KeyField(ObjectOf(c))) = 0
        THEN Leave(c, "ErrNoKeyField")
       ELSE IF Key(c) = 0
        THEN Leave(c, "ErrKeyMissing")
       ELSE /\ op' = [op EXCEPT ![c] = "FindSelf"]
            /\ pc' = [pc EXCEPT ![c] = "Query"]
            /\ ret' = [ret EXCEPT ![c] = "none"]
    /\ UNCHANGED <<genVars, mainVars, storeVars, queryVars, db, panic, obj, mu, inflight, rowsLeft>>

\* DBU.Query: du.db.Query(query, args...) starts
QueryStart(c) ==
    /\ Alive
    /\ pc[c] = "Query"
    /\ Deref(c, "Query_running")
    /\ UNCHANGED <<genVars, mainVars, storeVars, queryVars, db, op, obj, mu, failed, ret, rowsLeft>>

\* DBU.Query returns nil, the error of du.db.Query or the error of a rows.Scan;
\* DBU.get logs the error and returns nil, Query and ListQuery return it
QueryReturn(c) ==
    /\ Alive
    /\ pc[c] = "Query_running"
    /\ inflight' = inflight \ {c}
    /\ \E outcome \in {"ok", "query error", "scan error"} :
        LET err == outcome # "ok"
        IN /\ c \notin inflight => outcome = "query error"
           /\ failed' = [failed EXCEPT ![c] = err]
           /\ Leave(c, IF op[c] \in GetOps THEN "nil"
                       ELSE IF err THEN "error" ELSE "nil")
    /\ UNCHANGED <<genVars, mainVars, storeVars, queryVars, db, panic, obj, mu, rowsLeft>>

\* DBU.InsertMany: du.db.Begin() and tx.Prepare(query); either may fail
InsertMany(c) ==
    /\ Alive
    /\ \E n \in 0..MaxRows, ok \in BOOLEAN :
        IF ok THEN /\ db = "open"
                   /\ Enter(c, "InsertMany", "Many")
                   /\ rowsLeft' = [rowsLeft EXCEPT ![c] = n]
        ELSE /\ pc[c] = "idle"
             /\ failed' = [failed EXCEPT ![c] = TRUE]
             /\ Leave(c, "error")
             /\ UNCHANGED rowsLeft
    /\ UNCHANGED <<genVars, mainVars, storeVars, queryVars, db, panic, obj, mu, inflight>>

\* DBU.InsertMany: du.db.Begin() on the nil handle
InsertManyPanic(c) ==
    /\ Alive
    /\ pc[c] = "idle"
    /\ db = "nil"
    /\ panic' = c
    /\ UNCHANGED <<genVars, mainVars, storeVars, queryVars, db, pc, op, obj, mu, inflight, failed,
                   ret, rowsLeft>>

\* DBU.Close: `if du.db != nil { sqlite.Close(du.db); du.db = nil }`, no lock taken
Close(c) ==
    /\ Alive
    /\ pc[c] = "idle"
    /\ db' = "nil"
    /\ failed' = [failed EXCEPT ![c] = FALSE]
    /\ ret' = [ret EXCEPT ![c] = "none"]
    /\ UNCHANGED <<genVars, mainVars, storeVars, queryVars, panic, pc, op, obj, mu, inflight, rowsLeft>>

\* DBU.InsertMany: stmt.Exec(arg...) of the next row starts
InsertManyExec(c) ==
    /\ Alive
    /\ pc[c] = "Many"
    /\ rowsLeft[c] > 0
    /\ inflight' = inflight \cup {c}
    /\ pc' = [pc EXCEPT ![c] = "Many_running"]
    /\ UNCHANGED <<genVars, mainVars, storeVars, queryVars, db, panic, op, obj, mu, failed, ret, rowsLeft>>

\* DBU.InsertMany: stmt.Exec returns; on an error tx.Rollback() and return err
InsertManyRow(c) ==
    /\ Alive
    /\ pc[c] = "Many_running"
    /\ inflight' = inflight \ {c}
    /\ \E err \in BOOLEAN :
        IF err THEN /\ failed' = [failed EXCEPT ![c] = TRUE]
                    /\ Leave(c, "error")
                    /\ rowsLeft' = [rowsLeft EXCEPT ![c] = 0]
        ELSE /\ pc' = [pc EXCEPT ![c] = "Many"]
             /\ rowsLeft' = [rowsLeft EXCEPT ![c] = rowsLeft[c] - 1]
             /\ UNCHANGED <<op, failed, ret>>
    /\ UNCHANGED <<genVars, mainVars, storeVars, queryVars, db, panic, obj, mu>>

\* DBU.InsertMany: return tx.Commit()
InsertManyCommit(c) ==
    /\ Alive
    /\ pc[c] = "Many"
    /\ rowsLeft[c] = 0
    /\ \E err \in BOOLEAN :
        /\ failed' = [failed EXCEPT ![c] = err]
        /\ Leave(c, IF err THEN "error" ELSE "nil")
    /\ UNCHANGED <<genVars, mainVars, storeVars, queryVars, db, panic, obj, mu, inflight, rowsLeft>>

NextDBU ==
    \E c \in Callers :
        \/ \E o \in ExecOps : CallExec(c, o)
        \/ ExecLock(c)
        \/ ExecStart(c)
        \/ ExecReturn(c)
        \/ \E o \in GetOps \cup QueryOps : CallQuery(c, o)
        \/ FindSelf(c)
        \/ QueryStart(c)
        \/ QueryReturn(c)
        \/ InsertMany(c)
        \/ InsertManyExec(c)
        \/ InsertManyRow(c)
        \/ InsertManyCommit(c)
        \/ InsertManyPanic(c)
        \/ Close(c)

SpecDBU == InitDBU /\ [][NextDBU]_vars

----------------------------------------------------------------------------
(* C9, C10: the shared DBU *)

\* the writers of one DBU alone: callers that go through DBU.Exec, beside Close
NextExec ==
    \E c \in Callers :
        \/ \E o \in ExecOps : CallExec(c, o)
        \/ ExecLock(c)
        \/ ExecStart(c)
        \/ ExecReturn(c)
        \/ Close(c)

SpecExec == InitDBU /\ [][NextExec]_vars

\* the callers whose statement in flight is a write
WritesInFlight == {c \in inflight : op[c] \in ExecOps \cup {"InsertMany"}}

\* C9: every write statement executes while its caller holds the DBU's lock, so
\* no two write statements are in flight at once; a read takes no lock.
C9_WritesHoldLock ==
    /\ \A c \in WritesInFlight : mu = c
    /\ Cardinality(WritesInFlight) <= 1
    /\ \A c \in Callers : op[c] \in GetOps \cup QueryOps => mu # c

\* C10: an operation whose query or exec failed returns a non-nil error.
C10_DatabaseErrorReturned ==
    \A c \in Callers : (ret[c] # "none" /\ failed[c]) => ret[c] # "nil"

\* the callers whose statement, issued through DBU.Exec, is executing
ExecInFlight == {c \in inflight : op[c] \in ExecOps}

C30_CloseWaitsForStatements ==
    /\ db = "nil" => inflight = {}
    /\ panic = NoCaller
    /\ \A c \in Callers : pc[c] \in {"Exec_running", "Query_running"} => c \in inflight

----------------------------------------------------------------------------
(* C11 - C14, C16: the descriptor of one struct and the block printed from it *)

\* the field a quoted name of Names() names, and the field an address names
NamedBy(q) == SubSeq(q, 2, Len(q) - 1)
AddressedBy(a) == SubSeq(a, 2, Len(a))

\* C11: Names() has as many entries as MemberPointers() and as SelectFields()
\* has columns, and its i-th name is the field of the i-th member pointer.
C11_NamesAlignWithPointers ==
    buf # <<>> =>
        /\ Len(Names(Block)) = Len(MemberPointers(Block))
        /\ Len(Names(Block)) = Len(ColumnList(SelectFields(Block)))
        /\ \A i \in DOMAIN Names(Block) :
                i \in DOMAIN MemberPointers(Block) =>
                    NamedBy(Names(Block)[i]) = AddressedBy(MemberPointers(Block)[i])

\* the descriptors genDecl has appended for the one struct of a Spec run
Descriptors == values[1]

\* what genDecl appends for a struct named n with the fields fs
DescriptorsOf(n, fs) ==
    IF sqlTags(n, fs) = Nil THEN <<>> ELSE <<[sqlTags(n, fs) EXCEPT !.Name = n]>>

\* C12: a field without a sql value contributes nothing, whatever other tags it
\* carries: the descriptor is the one of the struct without such fields.
C12_NoSQLFieldContributesNothing ==
    Generated =>
        Descriptors = DescriptorsOf(pkg[1][1].name, Persisted(StructFields))

\* C13: a field is in the no-update set exactly when its update tag parses as
\* false and it is not the key field; the key field is never in the set.
C13_NoUpdateSetExcludesKey ==
    (Generated /\ Descriptors # <<>>) =>
        \A i \in DOMAIN StructFields :
            StructFields[i].name \in Descriptors[1].NoUpdate
                <=> (/\ NoUpdateTagged(StructFields[i])
                     /\ StructFields[i].name # Descriptors[1].KeyName)

\* a tag other than sql on the field
OtherTags(f) == f.table # Empty \/ f.key # Empty \/ f.audit # Empty \/ f.update # Empty

\* C14: a struct without a sql-tagged field yields no descriptor and no block,
\* whatever other tags its fields carry; a struct with a sql-tagged field
\* yields one descriptor and one block.
C14_DescriptorIffSQLField ==
    Generated =>
        IF Persisted(StructFields) = <<>>
        THEN Descriptors = <<>> /\ buf = <<>>
        ELSE Len(Descriptors) = 1 /\ Len(buf) = 1 /\ Block.Name = pkg[1][1].name

\* C14 witness: generate has run over a struct whose fields carry audit, update,
\* key and table tags and no sql tag, and has printed nothing
C14_Witness ==
    /\ Generated
    /\ Persisted(StructFields) = <<>>
    /\ \E i, j \in DOMAIN StructFields :
            /\ StructFields[i].audit = Str("user") /\ StructFields[i].key # Empty
            /\ NoUpdateTagged(StructFields[j]) /\ StructFields[j].table # Empty
    /\ buf = <<>>

\* the fields tagged audit:"user", audit:"time"
AuditTagged(fs, v) == SelectSeq(fs, LAMBDA f : f.audit = Str(v))

\* the assignments of the generated ModifiedBy(user, t)
ModifiedBy(o) == o.ModifiedBy

\* C16: ModifiedBy assigns the user argument to a field exactly when some field
\* is tagged audit:"user" (to the last one so tagged), the time argument
\* exactly when some field is tagged audit:"time", and nothing else; any other
\* audit value has no effect.
C16_ModifiedByFollowsAuditTags ==
    buf # <<>> =>
        LET us == AuditTagged(StructFields, "user")
            ts == AuditTagged(StructFields, "time")
        IN ModifiedBy(Block) =
                (IF us # <<>> THEN <<[lhs |-> us[Len(us)].name, rhs |-> "&user"]>> ELSE <<>>)
             \o (IF ts # <<>> THEN <<[lhs |-> ts[Len(ts)].name, rhs |-> "t"]>> ELSE <<>>)

\* C16 witness: a block of a struct with one field tagged audit:"user" and one
\* tagged with another audit value, whose ModifiedBy has the one assignment
C16_Witness ==
    /\ buf # <<>>
    /\ \E i, j \in DOMAIN StructFields :
            /\ StructFields[i].audit = Str("user")
            /\ StructFields[j].audit # Empty
            /\ StructFields[j].audit \notin {Str("user"), Str("time")}
    /\ Len(ModifiedBy(Block)) = 1

----------------------------------------------------------------------------
(* C17: Key() and SetID(id) *)

\* C17: on a type without a key field Key() is 0, SetID(id) leaves every field
\* as it was and KeyField() and KeyName() are empty; on a type with a key field
\* Key() after SetID(id) is id and every other field is as it was.
C17_KeyAndSetID ==
    /\ (buf # <<>> /\ ~HasKey(StructFields)) =>
            KeyField(Block) = Empty /\ KeyName(Block) = Empty
    /\ (res # Nil /\ res.op = "SetID") =>
            IF HasKey(StructFields)
            THEN /\ stringKey(Block, recv) = res.id
                 /\ \A n \in DOMAIN recv \ {TheKey(StructFields).name} :
                        recv[n] = NewObject(StructFields)[n]
            ELSE /\ stringKey(Block, recv) = 0
                 /\ recv = NewObject(StructFields)

\* C17 witness: SetID has changed the key of an object with a key field and
\* another persisted field
C17_Witness ==
    /\ res # Nil /\ res.op = "SetID"
    /\ HasKey(StructFields) /\ NonKey(StructFields) # <<>>
    /\ recv[TheKey(StructFields).name] = res.id
    /\ recv # NewObject(StructFields)

----------------------------------------------------------------------------
(* The runtime on one object o and the table of its type, one caller.      *)
(* The database is the environment: a statement either fails and changes   *)
(* nothing, or, when it is well formed, has the effect SQL gives it.  A    *)
(* row is its rowid and the value of every other column; the key column of *)
(* the type is the rowid.                                                  *)

RowIDs == 1..MaxID
Vals == 1..MaxID

\* the columns of the table other than the key column
OtherColumns(b) == {c \in Range(ColumnList(SelectFields(b))) : c # KeyField(b)}

ColumnValue(b, row, c) == IF c = KeyField(b) THEN row.rowid ELSE row.col[c]

\* the value of the expression o.F on the object whose fields hold r
FieldValue(e, r) == r[Tail(e)]
ArgValues(es, r) == [i \in DOMAIN es |-> FieldValue(es[i], r)]

\* the position of column c in the list cols, 0 when it is not there
Position(cols, c) ==
    IF \E k \in DOMAIN cols : cols[k] = c
    THEN CHOOSE k \in DOMAIN cols : cols[k] = c ELSE 0

\* sql.DB.Exec failing
Failure(t) == [err |-> TRUE, last_id |-> 0, table |-> t]

\* "insert into T (cols) values(?,..)": a new row under a rowid not in use
dbInsert(b, t, q, args) ==
    LET cols == ColumnList(q.fields)
        ok == /\ Len(cols) >= 1
              /\ Len(cols) = Len(args)
              /\ Len(ColumnList(q.params)) = Len(args)
              /\ Cardinality(Range(cols)) = Len(cols)
              /\ Range(cols) \subseteq OtherColumns(b)
        row(i) == [rowid |-> i,
                   col |-> [c \in OtherColumns(b) |->
                                IF Position(cols, c) > 0 THEN args[Position(cols, c)] ELSE 0]]
    IN {Failure(t)} \cup
       (IF ok THEN {[err |-> FALSE, last_id |-> i, table |-> t \cup {row(i)}] :
                        i \in RowIDs \ {r.rowid : r \in t}}
        ELSE {})

\* "update T set c=?,.. where w=?": the rows whose w is the last argument
dbUpdate(b, t, q, args) ==
    LET sets == ColumnList(q.set)
        cols == [i \in DOMAIN sets |-> <<sets[i][1]>>]
        ok == /\ Len(sets) >= 1
              /\ \A i \in DOMAIN sets : Len(sets[i]) = 2
              /\ Range(cols) \subseteq OtherColumns(b)
              /\ q.where # Empty
              /\ q.where \in Range(ColumnList(SelectFields(b)))
              /\ Len(args) = Len(cols) + 1
        new(r) == IF ColumnValue(b, r, q.where) = args[Len(args)]
                  THEN [r EXCEPT !.col = [c \in DOMAIN r.col |->
                            IF Position(cols, c) > 0 THEN args[Position(cols, c)]
                            ELSE r.col[c]]]
                  ELSE r
    IN {Failure(t)} \cup
       (IF ok THEN {[err |-> FALSE, last_id |-> 0, table |-> {new(r) : r \in t}]}
        ELSE {})

\* "delete from T where w=?": the rows whose w is the argument
dbDelete(b, t, q, args) ==
    LET ok == /\ q.where # Empty
              /\ q.where \in Range(ColumnList(SelectFields(b)))
              /\ Len(args) = 1
    IN {Failure(t)} \cup
       (IF ok THEN {[err |-> FALSE, last_id |-> 0,
                     table |-> {r \in t : ColumnValue(b, r, q.where) # args[1]}]}
        ELSE {})

\* "replace into T (cols) values(?,..)" with arguments that are each a value
\* or a slice of values: a slice is no value the driver can bind, and the
\* statement fails; the statements the runtime builds name no key column, so
\* with values bound the row goes in under a rowid not in use, as with insert
dbReplace(b, t, q, args) ==
    IF \E i \in DOMAIN args : args[i].slice THEN {Failure(t)}
    ELSE dbInsert(b, t, q, [i \in DOMAIN args |-> args[i].val])

\* du.Exec(query, args...): result.LastInsertId() and err of du.db.Exec
dbExec(b, t, q, args) ==
    CASE q.verb = "insert" -> dbInsert(b, t, q, args)
      [] q.verb = "replace" -> dbReplace(b, t, q, args)
      [] q.verb = "update" -> dbUpdate(b, t, q, args)
      [] q.verb = "delete" -> dbDelete(b, t, q, args)

\* s := &T{...}, or an assignment to the fields of s: the key k, the others v
MakeObject(k, v) ==
    /\ Generated /\ buf # <<>> /\ tx = Nil
    /\ KeyName(buf[1]) = Empty => k = 0
    /\ recv' = [n \in DOMAIN NewObject(pkg[1][1].fields) |->
                    IF n = KeyName(buf[1]) THEN k ELSE v]
    /\ res' = Nil
    /\ UNCHANGED <<genVars, mainVars, dbuVars, queryVars, table, tx>>

\* DBU.Add(o)
AddObject ==
    /\ recv # Nil /\ tx = Nil
    /\ LET args == ArgValues(InsertValues(buf[1]), recv)
           query == insertQuery(buf[1])
       IN \E r \in dbExec(buf[1], table, query, args) :
            /\ table' = r.table
            /\ recv' = IF ~r.err THEN stringSetID(buf[1], recv, r.last_id) ELSE recv
            /\ res' = [op |-> "Add", err |-> r.err, id |-> r.last_id,
                       o |-> recv, before |-> table]
    /\ UNCHANGED <<genVars, mainVars, dbuVars, queryVars, tx>>

\* DBU.Replace(o): `du.Exec(replaceQuery(o), args)` hands the slice args over
\* as the one argument of the statement, and SetID is called `if err != nil`
\* with the last_id Exec returned, which is 0 then
ReplaceObject ==
    /\ recv # Nil /\ tx = Nil
    /\ LET args == <<[slice |-> TRUE, val |-> ArgValues(InsertValues(buf[1]), recv)]>>
           query == replaceQuery(buf[1])
       IN \E r \in dbExec(buf[1], table, query, args) :
            /\ table' = r.table
            /\ recv' = IF r.err THEN stringSetID(buf[1], recv, r.last_id) ELSE recv
            /\ res' = [op |-> "Replace", err |-> r.err, id |-> r.last_id,
                       o |-> recv, before |-> table]
    /\ UNCHANGED <<genVars, mainVars, dbuVars, queryVars, tx>>

\* DBU.Save(o)
SaveObject ==
    /\ recv # Nil /\ tx = Nil
    /\ LET args == ArgValues(UpdateValues(buf[1]), recv)
           query == updateQuery(buf[1])
       IN \E r \in dbExec(buf[1], table, query, args) :
            /\ table' = r.table
            /\ res' = [op |-> "Save", err |-> r.err, o |-> recv, before |-> table]
    /\ UNCHANGED <<genVars, mainVars, dbuVars, queryVars, recv, tx>>

\* DBU.Delete(o)
DeleteObject ==
    /\ recv # Nil /\ tx = Nil
    /\ LET args == <<stringKey(buf[1], recv)>>
           query == deleteQuery(buf[1])
       IN \E r \in dbExec(buf[1], table, query, args) :
            /\ table' = r.table
            /\ res' = [op |-> "Delete", err |-> r.err, o |-> recv, before |-> table]
    /\ UNCHANGED <<genVars, mainVars, dbuVars, queryVars, recv, tx>>

\* FindSelf with the check of o.Key() left out
findSelfKeyUnchecked(b, r) ==
    IF Len(KeyField(b)) = 0 THEN "ErrNoKeyField" ELSE "FindBy"

\* the checks of FindSelf: the error it returns, or that it goes on to FindBy
findSelf(b, r) ==
    IF Len(KeyField(b)) = 0 THEN "ErrNoKeyField"
    ELSE IF stringKey(b, r) = 0 THEN "ErrKeyMissing"
    ELSE "FindBy"

\* FindBy(o, key, value): the query it hands to get
FindBy(o, key, value) ==
    [verb |-> "select", fields |-> SelectFields(o), table |-> TableName(o),
     where |-> key, args |-> <<value>>]

\* rows.Scan(dest...) of the row into the members MemberPointers() points at
Scan(b, r, row) ==
    LET cols == ColumnList(SelectFields(b))
        dest == MemberPointers(b)
    IN [n \in DOMAIN r |->
            IF \E i \in DOMAIN dest : Tail(dest[i]) = n
            THEN ColumnValue(b, row, cols[CHOOSE i \in DOMAIN dest : Tail(dest[i]) = n])
            ELSE r[n]]

\* DBU.FindSelf(o); get logs an error of Query and returns nil
FindSelfObject ==
    /\ recv # Nil /\ tx = Nil
    /\ LET way == findSelf(buf[1], recv)
           query == FindBy(buf[1], KeyField(buf[1]), stringKey(buf[1], recv))
           rows == {r \in table : ColumnValue(buf[1], r, query.where) = query.args[1]}
       IN IF way = "FindBy"
          THEN /\ \/ recv' = recv
                  \/ \E row \in rows : recv' = Scan(buf[1], recv, row)
               /\ res' = [op |-> "FindSelf", ret |-> "nil", query |-> query,
                          o |-> recv, before |-> table]
          ELSE /\ recv' = recv
               /\ res' = [op |-> "FindSelf", ret |-> way, query |-> Nil,
                          o |-> recv, before |-> table]
    /\ UNCHANGED <<genVars, mainVars, dbuVars, queryVars, table, tx>>

\* the batches InsertMany is called with: up to MaxRows rows of one value each
Batches == UNION {[1..n -> Vals] : n \in 0..MaxRows}

\* InsertMany(query, args...) up to its loop: du.db.Begin() and tx.Prepare(query)
\* fail and it returns, after tx.Rollback() in the second case, or succeed
ManyBegin(rows) ==
    /\ Generated /\ buf # <<>> /\ tx = Nil
    /\ \/ /\ tx' = [query |-> insertQuery(buf[1]), rows |-> rows, batch |-> rows,
                      pending |-> table, before |-> table]
          /\ res' = Nil
       \/ /\ tx' = Nil
          /\ res' = [op |-> "InsertMany", err |-> TRUE, size |-> Len(rows),
                     executed |-> 0, before |-> table]
    /\ UNCHANGED <<genVars, mainVars, dbuVars, queryVars, recv, table>>

\* ManyExec committing the rows already executed when a row fails
ManyExecNoRollback ==
    /\ tx # Nil /\ tx.rows # <<>>
    /\ \E r \in dbExec(buf[1], tx.pending, tx.query, <<Head(tx.rows)>>) :
            IF r.err
            THEN /\ tx' = Nil
                 /\ table' = tx.pending
                 /\ res' = [op |-> "InsertMany", err |-> TRUE, size |-> Len(tx.batch),
                            executed |-> Len(tx.batch) - Len(tx.rows),
                            before |-> tx.before]
            ELSE /\ tx' = [tx EXCEPT !.rows = Tail(tx.rows), !.pending = r.table]
                 /\ UNCHANGED <<table, res>>
    /\ UNCHANGED <<genVars, mainVars, dbuVars, queryVars, recv>>

\* one iteration of the loop: stmt.Exec(arg...) inside the transaction; on an
\* error tx.Rollback() drops the rows executed so far and InsertMany returns it
\* (res keeps the size of the batch and the number of rows executed before it)
ManyExec ==
    /\ tx # Nil /\ tx.rows # <<>>
    /\ \E r \in dbExec(buf[1], tx.pending, tx.query, <<Head(tx.rows)>>) :
            IF r.err
            THEN /\ tx' = Nil
                 /\ res' = [op |-> "InsertMany", err |-> TRUE, size |-> Len(tx.batch),
                            executed |-> Len(tx.batch) - Len(tx.rows),
                            before |-> tx.before]
            ELSE /\ tx' = [tx EXCEPT !.rows = Tail(tx.rows), !.pending = r.table]
                 /\ UNCHANGED res
    /\ UNCHANGED <<genVars, mainVars, dbuVars, queryVars, recv, table>>

\* `return tx.Commit()`: the rows become the table's, or the commit fails
ManyCommit ==
    /\ tx # Nil /\ tx.rows = <<>>
    /\ \/ /\ table' = tx.pending
          /\ res' = [op |-> "InsertMany", err |-> FALSE, batch |-> tx.batch,
                     before |-> tx.before]
       \/ /\ table' = table
          /\ res' = [op |-> "InsertMany", err |-> TRUE, size |-> Len(tx.batch),
                     executed |-> Len(tx.batch), before |-> tx.before]
    /\ tx' = Nil
    /\ UNCHANGED <<genVars, mainVars, dbuVars, queryVars, recv>>

\* a type with a key field or one without, generated and then used
InitStore == \E d \in {DeclA, DeclB} : Start(<< <<d>> >>, Empty)

NextStore ==
    \/ Generate
    \/ \E k \in 0..MaxID, v \in Vals : MakeObject(k, v)
    \/ AddObject
    \/ ReplaceObject
    \/ SaveObject
    \/ DeleteObject
    \/ FindSelfObject
    \/ \E rows \in Batches : ManyBegin(rows)
    \/ ManyExec
    \/ ManyCommit

SpecStore == InitStore /\ [][NextStore]_vars

----------------------------------------------------------------------------
(* DBU.Query and DBU.ListQuery, one call followed row by row *)

\* the result sets du.db.Query hands back: up to MaxRows rows of one value each
ResultSets == UNION {[1..n -> Vals] : n \in 0..MaxRows}

\* the lists ListQuery is called with: empty, or holding an element already
Lists == {<<>>} \cup {<<v>> : v \in Vals}

\* Query(fn, query, args...) is called with a SetHandler of the caller's,
\* ListQuery(list, extra) with one that returns list.Receivers(); an error of
\* du.db.Query is returned at once
QueryCall(o, rows, list) ==
    /\ cursor = Nil
    /\ o \in QueryOps
    /\ o = "Query" => list = <<>>
    /\ \E ok \in BOOLEAN :
        cursor' = [op |-> o, rows |-> IF ok THEN rows ELSE <<>>, pos |-> 0,
                   handled |-> <<>>, scanned |-> <<>>, had |-> Len(list),
                   list |-> list, ret |-> IF ok THEN "none" ELSE "error"]
    /\ UNCHANGED <<genVars, mainVars, dbuVars, storeVars>>

\* list.Receivers() of the list type of the tests: it appends a zero element
\* and returns the pointers to the members of that element
Receivers(list) == Append(list, 0)

\* one round of `for rows.Next()` with a row to fetch: rows.Next() fetches it,
\* or fails on it and returns false, which ends the loop as the end of the
\* rows does (rows.Err() is not looked at); then dest := fn(), a nil dest
\* returns ErrNilWritePointers, and rows.Scan(dest...) fills the members dest
\* points at or fails
QueryRow ==
    /\ cursor # Nil /\ cursor.ret = "none"
    /\ cursor.pos < Len(cursor.rows)
    /\ LET i == cursor.pos + 1
           list == IF cursor.op = "ListQuery" THEN Receivers(cursor.list)
                   ELSE cursor.list
           called == [cursor EXCEPT !.pos = i, !.handled = Append(@, i),
                                    !.list = list]
       IN \/ cursor' = [cursor EXCEPT !.ret = "nil"]
          \/ /\ cursor.op = "Query"
             /\ cursor' = [called EXCEPT !.ret = "ErrNilWritePointers"]
          \/ cursor' = [called EXCEPT !.ret = "error"]
          \/ cursor' = [called EXCEPT
                            !.scanned = Append(@, i),
                            !.list = IF cursor.op = "ListQuery"
                                     THEN [list EXCEPT ![Len(list)] = cursor.rows[i]]
                                     ELSE list]
    /\ UNCHANGED <<genVars, mainVars, dbuVars, storeVars>>

\* rows.Next() after the last row: the loop ends, Query returns nil
QueryEnd ==
    /\ cursor # Nil /\ cursor.ret = "none"
    /\ cursor.pos = Len(cursor.rows)
    /\ cursor' = [cursor EXCEPT !.ret = "nil"]
    /\ UNCHANGED <<genVars, mainVars, dbuVars, storeVars>>

InitQuery ==
    /\ pkg = <<>> /\ names = <<>> /\ call = 1 /\ TypeName = <<>> /\ values = <<>>
    /\ buf = <<>> /\ emitted = <<>> /\ stmt = Nil
    /\ DBUIdle
    /\ StoreIdle
    /\ MainIdle

NextQuery ==
    \/ \E o \in QueryOps, rows \in ResultSets, list \in Lists : QueryCall(o, rows, list)
    \/ QueryRow
    \/ QueryEnd

SpecQuery == InitQuery /\ [][NextQuery]_vars

----------------------------------------------------------------------------
(* C25, C29: Query and ListQuery *)

\* the rows 1..n in their order
InOrder(n) == [i \in 1..n |-> i]

\* C25: Query calls the handler once per result row in row order; at the
\* first row with a nil dest it returns ErrNilWritePointers and at the first
\* row whose scan fails that error, no later row being fetched or scanned;
\* and it returns nil only when every row of the result was scanned.
C25_QueryScansEveryRow ==
    cursor # Nil =>
        /\ cursor.handled = InOrder(cursor.pos)
        /\ cursor.ret = "none" => cursor.scanned = cursor.handled
        /\ cursor.ret \in {"ErrNilWritePointers", "error"} /\ cursor.pos > 0 =>
                cursor.scanned = InOrder(cursor.pos - 1)
        /\ cursor.ret = "nil" => cursor.scanned = InOrder(Len(cursor.rows))

\* C29: when ListQuery has returned, the elements Receivers() appended to
\* the list are as many as the rows that were scanned.
C29_ListHoldsScannedRows ==
    cursor # Nil /\ cursor.op = "ListQuery" /\ cursor.ret # "none" =>
        Len(cursor.list) - cursor.had = Len(cursor.scanned)

----------------------------------------------------------------------------
(* C18 - C20: one object and its table *)

\* C18: FindSelf returns ErrNoKeyField when KeyField() is empty, otherwise
\* ErrKeyMissing when Key() is 0, in both cases without a query and with o and
\* the table as they were; otherwise it queries by the key field and the key.
C18_FindSelfEarlyReturns ==
    (res # Nil /\ res.op = "FindSelf") =>
        IF KeyField(Block) = Empty
        THEN /\ res.ret = "ErrNoKeyField" /\ res.query = Nil
             /\ recv = res.o /\ table = res.before
        ELSE IF stringKey(Block, res.o) = 0
        THEN /\ res.ret = "ErrKeyMissing" /\ res.query = Nil
             /\ recv = res.o /\ table = res.before
        ELSE /\ res.ret \notin {"ErrNoKeyField", "ErrKeyMissing"}
             /\ res.query # Nil
             /\ res.query.where = KeyField(Block)
             /\ res.query.args = <<stringKey(Block, res.o)>>

\* C18 witness: FindSelf has returned ErrKeyMissing for an object with a key
\* field and key 0 while the table holds a row
C18_Witness ==
    /\ res # Nil /\ res.op = "FindSelf" /\ res.ret = "ErrKeyMissing"
    /\ KeyField(Block) # Empty
    /\ table # {}

\* the rows of t that hold the value v in every column but the key
RowsHolding(t, v) == {r \in t : \A c \in DOMAIN r.col : r.col[c] = v}

\* C19: while InsertMany runs none of its rows is in the table; when it returns
\* nil the table has gained one row for each row of the batch, with its value;
\* when it returns an error the table is as it was before the call.
C19_InsertManyAllOrNothing ==
    /\ tx # Nil => table = tx.before
    /\ (res # Nil /\ res.op = "InsertMany") =>
            IF res.err
            THEN table = res.before
            ELSE /\ res.before \subseteq table
                 /\ Cardinality(table \ res.before) = Len(res.batch)
                 /\ \A v \in Vals :
                        Cardinality(RowsHolding(table \ res.before, v))
                            = Cardinality({i \in DOMAIN res.batch : res.batch[i] = v})

\* C19 witness: InsertMany has returned the error of its second row, after the
\* first was executed, and the table is as before
C19_Witness ==
    /\ res # Nil /\ res.op = "InsertMany" /\ res.err
    /\ res.executed >= 1 /\ res.executed < res.size
    /\ table = res.before

RowIDsOf(t) == {r.rowid : r \in t}

\* the values of the object's persisted fields other than the key, by column
ColumnsHeld(r) ==
    [c \in Range(ColumnsOf(NonKey(StructFields))) |->
        r[NonKey(StructFields)[Position(ColumnsOf(NonKey(StructFields)), c)].name]]

\* C20: on an object with a key field, a successful Add adds one row under a new
\* id and stores that id as the key of o; Save changes at most the row whose
\* id is the key of o and Delete removes at most that row; every other row is
\* as it was.
C20_AddSaveDeleteOwnRow ==
    (res # Nil /\ HasKey(StructFields)) =>
        /\ (res.op = "Add" /\ ~res.err) =>
                /\ stringKey(Block, recv) = res.id
                /\ res.id \notin RowIDsOf(res.before)
                /\ table = res.before \cup {[rowid |-> res.id, col |-> ColumnsHeld(res.o)]}
        /\ (res.op = "Add" /\ res.err) => (table = res.before /\ recv = res.o)
        /\ res.op = "Save" =>
                /\ recv = res.o
                /\ RowIDsOf(table) = RowIDsOf(res.before)
                /\ \A r \in res.before : r.rowid # stringKey(Block, res.o) => r \in table
                /\ ~res.err => \A r \in table :
                        r.rowid = stringKey(Block, res.o) => r.col = ColumnsHeld(res.o)
        /\ res.op = "Delete" =>
                /\ recv = res.o
                /\ table \subseteq res.before
                /\ \A r \in res.before \ table : r.rowid = stringKey(Block, res.o)
                /\ ~res.err => stringKey(Block, res.o) \notin RowIDsOf(table)

\* C20 witness: Save has changed the row of an object that Add gave its key,
\* in a table that holds another row
C20_Witness ==
    /\ res # Nil /\ res.op = "Save" /\ ~res.err
    /\ HasKey(StructFields)
    /\ stringKey(Block, recv) \in RowIDsOf(table)
    /\ Cardinality(table) >= 2
    /\ table # res.before

\* C28: after Replace(o) succeeds, the key of o is the last-insert id of the
\* replace statement, as after Add; after it fails, o is as it was.
C28_ReplaceSetsKeyOnSuccess ==
    (res # Nil /\ res.op = "Replace") =>
        /\ ~res.err => recv = stringSetID(buf[1], res.o, res.id)
        /\ res.err => recv = res.o

----------------------------------------------------------------------------
(* One run of main, from its arguments to its exit.  A path is the         *)
(* sequence of its components, the empty path ""  is Empty.                *)

\* filepath.Clean, for paths without "..": the "." components dropped
Clean(p) ==
    LET q == SelectSeq(p, LAMBDA c : c # ".")
    IN IF q = <<>> THEN <<".">> ELSE q

\* filepath.Join(a, b): the non-empty elements joined and cleaned, "" for none
FilepathJoin(a, b) == IF a \o b = <<>> THEN Empty ELSE Clean(a \o b)

\* filepath.Dir(p)
FilepathDir(p) == IF Len(p) <= 1 THEN <<".">> ELSE Clean(SubSeq(p, 1, Len(p) - 1))

baseName == <<"db_generated.go">>

\* the directories the sources may lie in, seen from the working directory
SourceDirs == {<<".">>, <<"d">>}

\* flag.Args(): the one directory, or the files of the package in it
Args(form, where) ==
    IF form = "dir" THEN <<where>> ELSE <<FilepathJoin(where, <<"a.go">>)>>

\* isDirectory(args[0])
isDirectory(r) == r.form = "dir"

\* main's dir: set only in the branch that takes a list of files
dirOf(r) == IF Len(r.args) = 1 /\ isDirectory(r) THEN Empty ELSE FilepathDir(r.args[1])

\* outputName: the -output flag, or db_generated.go joined to dir
outputName(r) == IF r.output = Empty THEN FilepathJoin(dirOf(r), baseName) ELSE r.output

\* a run: where the sources are and how they are named, the -output flag,
\* whether a file has a parse error, and what the type checker reports:
\* nothing, only errors of the kind the Error handler drops, or another error
InitMain ==
    /\ \E d \in {DeclA, DeclB} : Parsed(<< <<d>> >>, Empty)
    /\ \E form \in {"dir", "files"}, where \in SourceDirs,
          out \in {Empty, <<"o.go">>}, parse \in {"ok", "error"},
          chk \in {"none", "expected", "other"} :
            run = [form |-> form, where |-> where, args |-> Args(form, where),
                   output |-> out, parse |-> parse, check |-> chk,
                   pc |-> "parse", exit |-> "none", written |-> Nil]

\* parsePackage up to the type check: log.Fatalf on a file that does not parse
ParsePackage ==
    /\ run # Nil /\ run.pc = "parse"
    /\ run' = IF run.parse = "error"
              THEN [run EXCEPT !.pc = "done", !.exit = "1"]
              ELSE [run EXCEPT !.pc = "check"]
    /\ UNCHANGED <<genVars, dbuVars, storeVars, queryVars>>

\* Package.check: `if err != nil { log.Println("failed checking package:", err) }`
Check ==
    /\ run # Nil /\ run.pc = "check"
    /\ run' = [run EXCEPT !.pc = "generate"]
    /\ UNCHANGED <<genVars, dbuVars, storeVars, queryVars>>

\* the generate calls of main
MainGenerate == run # Nil /\ run.pc = "generate" /\ Generate

\* ioutil.WriteFile(outputName, src, 0644), log.Fatalf when it fails
WriteFile ==
    /\ run # Nil /\ run.pc = "generate" /\ Generated
    /\ \/ run' = [run EXCEPT !.pc = "done", !.exit = "0",
                              !.written = [name |-> outputName(run), src |-> buf]]
       \/ run' = [run EXCEPT !.pc = "done", !.exit = "1"]
    /\ UNCHANGED <<genVars, dbuVars, storeVars, queryVars>>

NextMain == ParsePackage \/ Check \/ MainGenerate \/ WriteFile

SpecMain == InitMain /\ [][NextMain]_vars

----------------------------------------------------------------------------
(* C21, C22: the exit of a run and the place of its output *)

\* C21: a run over a package with a parse error, or with a type-check error
\* other than the expected ones, writes no output and ends with a non-zero
\* exit.
C21_ErrorsAbortTheRun ==
    (run.parse = "error" \/ run.check = "other") =>
        /\ run.written = Nil
        /\ run.pc = "done" => run.exit # "0"

\* C22: without -output the file is written to db_generated.go in the
\* directory of the sources, for a directory argument and for a list of files.
C22_OutputInSourceDirectory ==
    (run.written # Nil /\ run.output = Empty) =>
        run.written.name = FilepathJoin(run.where, baseName)

----------------------------------------------------------------------------
(* C23: placeholders and values of the statements of Add and Save *)

\* the number of '?' in a piece of statement text
QuestionMarks(text) == Len(SelectSeq(text, LAMBDA k : k \in {"?", "=?"}))

\* C23: the statement Save builds has as many '?' (those of its SET list and
\* the one of its WHERE) as UpdateValues() has values, and the statement Add
\* builds has as many columns and as many '?' as InsertValues() has values.
C23_PlaceholdersMatchValues ==
    /\ (stmt # Nil /\ stmt.op = "Save") =>
            QuestionMarks(stmt.query.set) + 1 = Len(UpdateValues(buf[stmt.obj]))
    /\ (stmt # Nil /\ stmt.op = "Add") =>
            /\ Len(ColumnList(stmt.query.fields)) = Len(InsertValues(buf[stmt.obj]))
            /\ QuestionMarks(stmt.query.params) = Len(InsertValues(buf[stmt.obj]))

\* how often x is an entry of the list s
Occurrences(s, x) == Cardinality({i \in DOMAIN s : s[i] = x})

\* C27: every sql-tagged field of the generated type appears exactly once in
\* SelectFields() and in MemberPointers(), as the key or as an ordinary
\* column, however many fields of the struct carry a key tag.
C27_EverySQLFieldSelectedOnce ==
    buf # <<>> =>
        \A i \in DOMAIN StructFields :
            LET f == StructFields[i]
            IN f.sql # Empty =>
                /\ Occurrences(ColumnList(SelectFields(Block)), f.sql) = 1
                /\ Occurrences(MemberPointers(Block), Str("&o.") \o f.name) = 1
====
